---- MODULE Spec2Model ----
(***************************************************************************)
(* Model of the cloud-report benchmark tooling:                            *)
(*   - the driver script rendered from driverTemplate (cmd/generate.go),   *)
(*     run with a command line of -b / -w / -c / -d / -r options;          *)
(*   - the TPC-C escalation controller scripts/gen/tpcc.sh, run as one or  *)
(*     two concurrent invocations sharing the pid file and the results     *)
(*     directory.                                                          *)
(* Every external command (roachprod, cockroach, mkdir ...) is a step      *)
(* whose exit status is chosen nondeterministically; `set -e` decides      *)
(* what a non-zero status does to the script.                              *)
(***************************************************************************)
EXTENDS Integers, Sequences, FiniteSets, TLC

(***************************************************************************)
(* Bounds                                                                  *)
(***************************************************************************)
MaxArgs == 3          \* longest driver command line (number of options)
MaxWarehouses == 3    \* largest -W value tried (levels are scaled down)
MaxInc == 2           \* largest -I value tried
MaxInterrupts == 1    \* SIGINTs delivered in one behaviour
MaxShapeLen == 2      \* longest machine type name, in characters

(***************************************************************************)
(* Driver script: command line                                             *)
(***************************************************************************)
\* Options of `getopts 'c:b:w:dn:I:N:C:T:r'`.  -n/-I/-N/-C/-T only change
\* the argument text of commands and are not enumerated.
BootstrapValues == {"create", "upload", "setup", "all", "bogus"}
WorkloadValues  == {"cpu", "io", "net", "tpcc", "all", "bogus"}

Options ==
  [flag : {"b"}, arg : BootstrapValues] \cup
  [flag : {"w"}, arg : WorkloadValues] \cup
  [flag : {"d", "r"}, arg : {""}] \cup
  [flag : {"c"}, arg : {"binary"}]

RECURSIVE SeqsUpTo(_, _)
SeqsUpTo(S, n) ==
  IF n = 0 THEN {<<>>}
  ELSE LET shorter == SeqsUpTo(S, n - 1)
       IN  shorter \cup {Append(s, x) : s \in {t \in shorter : Len(t) = n - 1}, x \in S}

CommandLines == SeqsUpTo(Options, MaxArgs)

VARIABLES
  argv,              \* the driver's command line, a sequence of Options
  optind,            \* getopts: index of the next option to parse
  do_create, do_upload, do_setup, do_destroy, f_resume,
  cockroach_binary,  \* "" or the value of -c
  benchmarks,        \* the bash array benchmarks=()
  dphase,            \* position in the top-level script
  dfn,               \* shell function being executed, "" at top level
  dstep,             \* index of the next command in the body of dfn
  bench_i,           \* index into benchmarks of the running for loop
  issued,            \* commands issued so far, in order, with exit status
  usage_msg,         \* first line printed by usage(), "" if it was not called
  drc                \* exit status of the driver, -1 while it runs

dvars == <<argv, optind, do_create, do_upload, do_setup, do_destroy, f_resume,
           cockroach_binary, benchmarks, dphase, dfn, dstep, bench_i, issued,
           usage_msg, drc>>

(***************************************************************************)
(* Driver script: shell functions as command sequences                     *)
(***************************************************************************)
create_cluster == <<"roachprod create", "roachprod run tmux new">>

upload_scripts(binary) ==
  <<"roachprod run rm scripts", "roachprod put scripts",
    "roachprod run chmod", "roachprod run rm cockroach",
    IF binary = "" THEN "roachprod stage cockroach" ELSE "roachprod put cockroach">>

\* The first command runs inside $(...) in the word list of a for loop.
start_cockroach == <<"roachprod run ls stores", "roachprod start">>

setup_cluster == <<"roachprod run setup.sh">>

run_under_tmux(name) == <<"roachprod run tmux neww " \o name>>

bench_cpu == run_under_tmux("cpu")

bench_io == run_under_tmux("io")

bench_net == <<"roachprod ip", "roachprod run netperf server">> \o run_under_tmux("net")

bench_tpcc == start_cockroach \o <<"roachprod pgurl">> \o run_under_tmux("tpcc")

FetchBody(bench) ==
  CASE bench = "bench_cpu"  -> <<"roachprod run cpu.sh -w", "roachprod get coremark-results">>
    [] bench = "bench_io"   -> <<"roachprod run fio.sh -w", "roachprod get fio-results">>
    [] bench = "bench_net"  -> <<"roachprod run netperf.sh -w", "roachprod get netperf-results">>
    [] bench = "bench_tpcc" -> <<"roachprod run tpcc.sh -w", "roachprod get tpcc-results">>

destroy_cluster == <<"roachprod destroy">>

BenchFns == {"bench_cpu", "bench_io", "bench_net", "bench_tpcc"}

FetchName(bench) == "fetch_" \o bench \o "_results"

FetchFns == {FetchName(b) : b \in BenchFns}

FunctionBody(fn, binary) ==
  CASE fn = "create_cluster"  -> create_cluster
    [] fn = "upload_scripts"  -> upload_scripts(binary)
    [] fn = "setup_cluster"   -> setup_cluster
    [] fn = "bench_cpu"       -> bench_cpu
    [] fn = "bench_io"        -> bench_io
    [] fn = "bench_net"       -> bench_net
    [] fn = "bench_tpcc"      -> bench_tpcc
    [] fn = "destroy_cluster" -> destroy_cluster
    [] fn = "prelude"         -> <<"mkdir -p logdir">>
    [] OTHER -> FetchBody(CHOOSE b \in BenchFns : FetchName(b) = fn)

\* `set -e` does not act on a command substitution in the word list of a
\* for loop: its status is discarded and the loop runs over its output.
ErrexitApplies(cmd) == cmd # "roachprod run ls stores"

(***************************************************************************)
(* Driver script: state machine                                            *)
(***************************************************************************)
DriverStart ==
  /\ argv \in CommandLines
  /\ optind = 1
  /\ do_create = FALSE /\ do_upload = FALSE /\ do_setup = FALSE
  /\ do_destroy = FALSE /\ f_resume = FALSE
  /\ cockroach_binary = ""
  /\ benchmarks = <<>>
  /\ dphase = "prelude" /\ dfn = "prelude" /\ dstep = 1
  /\ bench_i = 1
  /\ issued = <<>>
  /\ usage_msg = ""
  /\ drc = -1

\* Variant: the wait loop is placed before the start loop.
NextPhaseWaitFirst(ph) ==
  CASE ph = "prelude" -> "getopts"
    [] ph = "getopts" -> "create"
    [] ph = "create"  -> "upload"
    [] ph = "upload"  -> "setup"
    [] ph = "setup"   -> "wait"
    [] ph = "wait"    -> "start"
    [] ph = "start"   -> "destroy"
    [] ph = "destroy" -> "exit"

\* Phase that follows a phase of the top-level script.
NextPhase(ph) ==
  CASE ph = "prelude" -> "getopts"
    [] ph = "getopts" -> "create"
    [] ph = "create"  -> "upload"
    [] ph = "upload"  -> "setup"
    [] ph = "setup"   -> "start"
    [] ph = "start"   -> "wait"
    [] ph = "wait"    -> "destroy"
    [] ph = "destroy" -> "exit"

\* One simple command of the current function: it is issued, returns rc, and
\* under `set -e` a non-zero rc ends the script with that status.
RunCommand ==
  /\ drc = -1 /\ dfn # ""
  /\ LET body == FunctionBody(dfn, cockroach_binary)
         cmd  == body[dstep]
     IN \E rc \in {0, 1} :
          /\ issued' = Append(issued, [fn |-> dfn, cmd |-> cmd, rc |-> rc])
          /\ IF rc # 0 /\ ErrexitApplies(cmd)
             THEN /\ drc' = rc
                  /\ UNCHANGED <<dfn, dstep, dphase, bench_i>>
             ELSE /\ drc' = drc
                  /\ IF dstep < Len(body)
                     THEN /\ dstep' = dstep + 1
                          /\ UNCHANGED <<dfn, dphase, bench_i>>
                     ELSE \* the function returns to the top-level script
                          /\ dfn' = "" /\ dstep' = 1
                          /\ IF dphase \in {"start", "wait"}
                             THEN bench_i' = bench_i + 1 /\ dphase' = dphase
                             ELSE bench_i' = bench_i /\ dphase' = NextPhase(dphase)
  /\ UNCHANGED <<argv, optind, do_create, do_upload, do_setup, do_destroy,
                 f_resume, cockroach_binary, benchmarks, usage_msg>>

\* Variant: usage() prints the message but has no `exit 1`.
usageWithoutExit(msg) ==
  /\ usage_msg' = msg
  /\ UNCHANGED <<do_create, do_upload, do_setup, do_destroy, f_resume,
                 cockroach_binary, benchmarks, dphase, drc>>

\* usage(): `echo "$1 Usage: ..."` and `exit 1`.
usage(msg) ==
  /\ usage_msg' = msg
  /\ drc' = 1
  /\ UNCHANGED <<do_create, do_upload, do_setup, do_destroy, f_resume,
                 cockroach_binary, benchmarks, dphase>>

\* One iteration of `while getopts ... ; do case ... esac; done`.
GetOpts ==
  /\ drc = -1 /\ dfn = "" /\ dphase = "getopts"
  /\ IF optind > Len(argv)
     THEN /\ dphase' = NextPhase(dphase)
          /\ UNCHANGED <<optind, do_create, do_upload, do_setup, do_destroy,
                         f_resume, cockroach_binary, benchmarks, drc, usage_msg>>
     ELSE LET o == argv[optind] IN
          /\ optind' = optind + 1
          /\ CASE o.flag = "b" /\ o.arg = "all" ->
                    /\ do_create' = TRUE /\ do_upload' = TRUE /\ do_setup' = TRUE
                    /\ UNCHANGED <<do_destroy, f_resume, cockroach_binary,
                                   benchmarks, dphase, drc,
                                   usage_msg>>
               [] o.flag = "b" /\ o.arg = "create" ->
                    /\ do_create' = TRUE
                    /\ UNCHANGED <<do_upload, do_setup, do_destroy, f_resume,
                                   cockroach_binary, benchmarks, dphase, drc,
                                   usage_msg>>
               [] o.flag = "b" /\ o.arg = "upload" ->
                    /\ do_upload' = TRUE
                    /\ UNCHANGED <<do_create, do_setup, do_destroy, f_resume,
                                   cockroach_binary, benchmarks, dphase, drc,
                                   usage_msg>>
               [] o.flag = "b" /\ o.arg = "setup" ->
                    /\ do_setup' = TRUE
                    /\ UNCHANGED <<do_create, do_upload, do_destroy, f_resume,
                                   cockroach_binary, benchmarks, dphase, drc,
                                   usage_msg>>
               [] o.flag = "c" ->
                    /\ cockroach_binary' = o.arg
                    /\ UNCHANGED <<do_create, do_upload, do_setup, do_destroy,
                                   f_resume, benchmarks, dphase, drc,
                                   usage_msg>>
               [] o.flag = "w" /\ o.arg \in {"cpu", "io", "net", "tpcc"} ->
                    /\ benchmarks' = Append(benchmarks, "bench_" \o o.arg)
                    /\ UNCHANGED <<do_create, do_upload, do_setup, do_destroy,
                                   f_resume, cockroach_binary, dphase, drc,
                                   usage_msg>>
               [] o.flag = "w" /\ o.arg = "all" ->
                    /\ benchmarks' = benchmarks \o
                         <<"bench_cpu", "bench_io", "bench_net", "bench_tpcc">>
                    /\ UNCHANGED <<do_create, do_upload, do_setup, do_destroy,
                                   f_resume, cockroach_binary, dphase, drc,
                                   usage_msg>>
               [] o.flag = "d" ->
                    /\ do_destroy' = TRUE
                    /\ UNCHANGED <<do_create, do_upload, do_setup, f_resume,
                                   cockroach_binary, benchmarks, dphase, drc,
                                   usage_msg>>
               [] o.flag = "r" ->
                    /\ f_resume' = TRUE
                    /\ UNCHANGED <<do_create, do_upload, do_setup, do_destroy,
                                   cockroach_binary, benchmarks, dphase, drc,
                                   usage_msg>>
               [] OTHER ->
                    usage("Invalid -" \o o.flag \o " value '" \o o.arg \o "'")
  /\ UNCHANGED <<argv, dfn, dstep, bench_i, issued>>

\* `if [ -n "$flag" ]; then fn; fi` of a bootstrap or teardown phase.
Gate(ph, flag, fn) ==
  /\ drc = -1 /\ dfn = "" /\ dphase = ph
  /\ IF flag
     THEN dfn' = fn /\ dstep' = 1 /\ dphase' = dphase
     ELSE dfn' = dfn /\ dstep' = dstep /\ dphase' = NextPhase(dphase)
  /\ UNCHANGED <<argv, optind, do_create, do_upload, do_setup, do_destroy,
                 f_resume, cockroach_binary, benchmarks, bench_i, issued,
                 usage_msg, drc>>

GateCreate == Gate("create", do_create, "create_cluster")

GateUpload == Gate("upload", do_upload, "upload_scripts")

GateSetup == Gate("setup", do_setup, "setup_cluster")

\* Variant: the cluster is destroyed whether or not -d was given.
GateDestroyAlways == Gate("destroy", TRUE, "destroy_cluster")

GateDestroy == Gate("destroy", do_destroy, "destroy_cluster")

\* Variant: the start loop does not look at f_resume.
StartLoopIgnoringResume ==
  /\ drc = -1 /\ dfn = "" /\ dphase = "start"
  /\ IF bench_i > Len(benchmarks)
     THEN dphase' = NextPhase(dphase) /\ bench_i' = 1 /\ dfn' = dfn
     ELSE dphase' = dphase /\ bench_i' = bench_i /\ dfn' = benchmarks[bench_i]
  /\ dstep' = 1
  /\ UNCHANGED <<argv, optind, do_create, do_upload, do_setup, do_destroy,
                 f_resume, cockroach_binary, benchmarks, issued, usage_msg, drc>>

\* `if [ -z "$f_resume" ]; then for bench in "${benchmarks[@]}"; do $bench; done; fi`
StartLoop ==
  /\ drc = -1 /\ dfn = "" /\ dphase = "start"
  /\ IF f_resume \/ bench_i > Len(benchmarks)
     THEN dphase' = NextPhase(dphase) /\ bench_i' = 1 /\ dfn' = dfn
     ELSE dphase' = dphase /\ bench_i' = bench_i /\ dfn' = benchmarks[bench_i]
  /\ dstep' = 1
  /\ UNCHANGED <<argv, optind, do_create, do_upload, do_setup, do_destroy,
                 f_resume, cockroach_binary, benchmarks, issued, usage_msg, drc>>

\* Variant: the wait loop walks the benchmarks from the last to the first.
WaitLoopReversed ==
  /\ drc = -1 /\ dfn = "" /\ dphase = "wait"
  /\ IF bench_i > Len(benchmarks)
     THEN dphase' = NextPhase(dphase) /\ bench_i' = 1 /\ dfn' = dfn
     ELSE dphase' = dphase /\ bench_i' = bench_i
          /\ dfn' = FetchName(benchmarks[Len(benchmarks) + 1 - bench_i])
  /\ dstep' = 1
  /\ UNCHANGED <<argv, optind, do_create, do_upload, do_setup, do_destroy,
                 f_resume, cockroach_binary, benchmarks, issued, usage_msg, drc>>

\* `for bench in "${benchmarks[@]}"; do fetch="fetch_${bench}_results"; $fetch; done`
WaitLoop ==
  /\ drc = -1 /\ dfn = "" /\ dphase = "wait"
  /\ IF bench_i > Len(benchmarks)
     THEN dphase' = NextPhase(dphase) /\ bench_i' = 1 /\ dfn' = dfn
     ELSE dphase' = dphase /\ bench_i' = bench_i
          /\ dfn' = FetchName(benchmarks[bench_i])
  /\ dstep' = 1
  /\ UNCHANGED <<argv, optind, do_create, do_upload, do_setup, do_destroy,
                 f_resume, cockroach_binary, benchmarks, issued, usage_msg, drc>>

\* The script runs off its last line: exit status 0.
DriverExit ==
  /\ drc = -1 /\ dfn = "" /\ dphase = "exit"
  /\ drc' = 0
  /\ UNCHANGED <<argv, optind, do_create, do_upload, do_setup, do_destroy,
                 f_resume, cockroach_binary, benchmarks, dphase, dfn, dstep,
                 bench_i, issued, usage_msg>>



(***************************************************************************)
(* tpcc.sh: invocations, files                                             *)
(***************************************************************************)
Procs == {1, 2}       \* process ids of the tpcc.sh invocations

\* Pass rule of the escalation loop: awk '{if($3 > 85 && $7 < 10000)...}'
Col3Threshold == 85
Col7Threshold == 10000

Col3Values == {Col3Threshold, Col3Threshold + 1}
Col7Values == {Col7Threshold - 1, Col7Threshold}

\* Command line of an invocation: -f, -w, -s, an option getopts rejects,
\* whether pgurls were given, -A, -W, -I.
DefaultArgs ==
  [force |-> FALSE, wait |-> FALSE, skip_load |-> TRUE, bad |-> FALSE,
   pgurls |-> TRUE, active |-> 1, warehouses |-> 1, inc |-> 1]

\* Invocations that reach the escalation loop, over all level parameters.
LevelArgs ==
  {[DefaultArgs EXCEPT !.active = a, !.warehouses = w, !.inc = i] :
     a \in 0..(MaxWarehouses + 1), w \in 1..MaxWarehouses, i \in 0..MaxInc}

\* Invocations over all flags, with a single level.
FlagArgs ==
  {[DefaultArgs EXCEPT !.force = f, !.skip_load = s] :
     f \in BOOLEAN, s \in BOOLEAN} \cup
  {[DefaultArgs EXCEPT !.wait = TRUE], [DefaultArgs EXCEPT !.bad = TRUE]} \cup
  {[DefaultArgs EXCEPT !.pgurls = FALSE, !.force = f] : f \in BOOLEAN}

\* The second invocation: a run of a single level, forced or not, or a wait.
PeerArgs ==
  {[DefaultArgs EXCEPT !.force = f] : f \in BOOLEAN} \cup
  {[DefaultArgs EXCEPT !.wait = TRUE]}

LoadingPeerArgs ==
  {[DefaultArgs EXCEPT !.skip_load = FALSE], [DefaultArgs EXCEPT !.wait = TRUE]}

NoLogdir == [exists |-> FALSE, success |-> FALSE, reports |-> {}]

VARIABLES
  targs,       \* command line of each invocation
  tpc,         \* position of each invocation in the script
  trap,        \* whether `trap "rm -f $pidfile" EXIT SIGINT` is installed
  f_inc,       \* the shell variable f_inc
  todo,        \* levels left in the word list of the for loop
  ran,         \* levels the invocation has run, with the rule's verdict
  tracked,     \* wait mode: pid read from the pid file, 0 if none
  trc,         \* exit status, -1 while the invocation runs
  why,         \* how the invocation came to exit
  seen,        \* pid found in the pid file by the start-up check, -1 before
  effects,     \* commands with side effects the invocation has performed
  pidfile,     \* $HOME/tpcc-bench.pid: 0 if absent, else the pid it holds
  logdir,      \* $HOME/tpcc-results: existence, success marker, reports
  interrupts   \* SIGINTs delivered so far

tvars == <<targs, tpc, trap, f_inc, todo, ran, tracked, trc, why, seen,
           effects, pidfile, logdir, interrupts>>


Alive(p) == tpc[p] # "done"

\* Variant: a seq that stops short of LAST.
RECURSIVE seqExclusive(_, _, _)
seqExclusive(first, inc, last) ==
  IF first >= last THEN <<>> ELSE <<first>> \o seqExclusive(first + inc, inc, last)

\* `seq FIRST INCREMENT LAST` for a positive increment.
RECURSIVE seq(_, _, _)
seq(first, inc, last) ==
  IF first > last THEN <<>> ELSE <<first>> \o seq(first + inc, inc, last)

\* awk '{if($3 > 85 && $7 < 10000){print "pass"}}' on the report's last line.
PassRule(col3, col7) == col3 > Col3Threshold /\ col7 < Col7Threshold

TpccProcsStart(first, second) ==
  /\ targs \in [Procs -> first \cup second]
  /\ targs[1] \in first
  /\ targs[2] \in second
  /\ tpc = [p \in Procs |-> "getopts"]
  /\ trap = [p \in Procs |-> FALSE]
  /\ f_inc = [p \in Procs |-> targs[p].inc]
  /\ todo = [p \in Procs |-> <<>>]
  /\ ran = [p \in Procs |-> <<>>]
  /\ tracked = [p \in Procs |-> 0]
  /\ trc = [p \in Procs |-> -1]
  /\ why = [p \in Procs |-> ""]
  /\ seen = [p \in Procs |-> -1]
  /\ effects = [p \in Procs |-> {}]

\* Two invocations start on a machine where tpcc.sh has not run before.
TpccStart(first, second) ==
  /\ TpccProcsStart(first, second)
  /\ pidfile = 0
  /\ logdir = NoLogdir
  /\ interrupts = 0

\* What an earlier run that finished leaves behind: its EXIT trap removed
\* the pid file; the results directory holds its report and success marker.
LeftoverLogdir ==
  [exists |-> TRUE, success |-> TRUE,
   reports |-> {[level |-> 1, col3 |-> Col3Threshold + 1,
                 col7 |-> Col7Threshold - 1]}]

\* Two invocations start, possibly after an earlier run on the machine.
RerunStart(first, second) ==
  /\ TpccProcsStart(first, second)
  /\ pidfile = 0
  /\ logdir \in {NoLogdir, LeftoverLogdir}
  /\ interrupts = 0

(***************************************************************************)
(* tpcc.sh: steps of one invocation                                        *)
(***************************************************************************)
\* The script moves on to the next command.
Goto(p, pc) ==
  /\ tpc' = [tpc EXCEPT ![p] = pc]
  /\ UNCHANGED <<trc, why>>

\* `exit` (or `set -e` after a failed command): the EXIT trap, if installed,
\* still has to run.
Exit(p, rc, reason) ==
  /\ tpc' = [tpc EXCEPT ![p] = IF trap[p] THEN "exiting" ELSE "done"]
  /\ trc' = [trc EXCEPT ![p] = rc]
  /\ why' = [why EXCEPT ![p] = reason]

Did(p, what) == effects' = [effects EXCEPT ![p] = @ \cup {what}]

\* Lines 27-48: option parsing, then the branch into wait mode.
ParseArgs(p) ==
  /\ tpc[p] = "getopts"
  /\ IF targs[p].bad THEN Exit(p, 1, "usage")
     ELSE IF targs[p].wait THEN Goto(p, "w_test")
     ELSE Goto(p, "guard")
  /\ UNCHANGED <<targs, trap, f_inc, todo, ran, tracked, seen, effects,
                 pidfile, logdir, interrupts>>

\* Wait mode, line 45: test -f "$logdir/success".
WaitTestSuccess(p) ==
  /\ tpc[p] = "w_test"
  /\ IF logdir.exists /\ logdir.success
     THEN Exit(p, 0, "finished")
     ELSE Goto(p, "w_cat")
  /\ UNCHANGED <<targs, trap, f_inc, todo, ran, tracked, seen, effects,
                 pidfile, logdir, interrupts>>

\* Wait mode, line 46: $(cat $pidfile).  With no pid file the expansion is
\* empty, `tail --pid -f /dev/null` rejects the pid and the wait fails.
WaitReadPid(p) ==
  /\ tpc[p] = "w_cat"
  /\ IF pidfile = 0
     THEN Exit(p, 1, "failed") /\ UNCHANGED tracked
     ELSE Goto(p, "w_tail") /\ tracked' = [tracked EXCEPT ![p] = pidfile]
  /\ UNCHANGED <<targs, trap, f_inc, todo, ran, seen, effects,
                 pidfile, logdir, interrupts>>

\* Wait mode, line 46: tail --pid returns once the process is gone.
WaitTail(p) ==
  /\ tpc[p] = "w_tail"
  /\ ~Alive(tracked[p])
  /\ Goto(p, "w_test2")
  /\ UNCHANGED <<targs, trap, f_inc, todo, ran, tracked, seen, effects,
                 pidfile, logdir, interrupts>>

\* Wait mode, lines 46-47: the second test -f, else the failure message.
WaitTestAgain(p) ==
  /\ tpc[p] = "w_test2"
  /\ IF logdir.exists /\ logdir.success
     THEN Exit(p, 0, "finished")
     ELSE Exit(p, 1, "failed")
  /\ UNCHANGED <<targs, trap, f_inc, todo, ran, tracked, seen, effects,
                 pidfile, logdir, interrupts>>

\* Variant: the start-up check lets every invocation through.
GuardIgnoresMarker(p) ==
  /\ tpc[p] = "guard"
  /\ seen' = [seen EXCEPT ![p] = pidfile]
  /\ Goto(p, "pgurls")
  /\ UNCHANGED <<targs, trap, f_inc, todo, ran, tracked, effects,
                 pidfile, logdir, interrupts>>

\* Variant: the test of f_force is inverted ([ -n "$f_force" ]).
GuardRefusesForced(p) ==
  /\ tpc[p] = "guard"
  /\ seen' = [seen EXCEPT ![p] = pidfile]
  /\ IF pidfile # 0 /\ targs[p].force
     THEN Goto(p, "guard_cat")
     ELSE Goto(p, "pgurls")
  /\ UNCHANGED <<targs, trap, f_inc, todo, ran, tracked, effects,
                 pidfile, logdir, interrupts>>

\* Line 51: [ -f "$pidfile" ] && [ -z "$f_force" ].
Guard(p) ==
  /\ tpc[p] = "guard"
  /\ seen' = [seen EXCEPT ![p] = pidfile]
  /\ IF pidfile # 0 /\ ~targs[p].force
     THEN Goto(p, "guard_cat")
     ELSE Goto(p, "pgurls")
  /\ UNCHANGED <<targs, trap, f_inc, todo, ran, tracked, effects,
                 pidfile, logdir, interrupts>>

\* Lines 53-55: pid=$(cat $pidfile); echo ...; exit.  The cat fails under
\* `set -e` if the file went away since the check.
GuardRefuse(p) ==
  /\ tpc[p] = "guard_cat"
  /\ Exit(p, IF pidfile # 0 THEN 0 ELSE 1, "guard")
  /\ UNCHANGED <<targs, trap, f_inc, todo, ran, tracked, seen, effects,
                 pidfile, logdir, interrupts>>

\* Lines 58-64: usage "list of pgurls required".
CheckPgurls(p) ==
  /\ tpc[p] = "pgurls"
  /\ IF targs[p].pgurls THEN Goto(p, "trap") ELSE Exit(p, 1, "usage")
  /\ UNCHANGED <<targs, trap, f_inc, todo, ran, tracked, seen, effects,
                 pidfile, logdir, interrupts>>

\* Line 66: trap "rm -f $pidfile" EXIT SIGINT.
InstallTrap(p) ==
  /\ tpc[p] = "trap"
  /\ trap' = [trap EXCEPT ![p] = TRUE]
  /\ Goto(p, "writepid")
  /\ UNCHANGED <<targs, f_inc, todo, ran, tracked, seen, effects,
                 pidfile, logdir, interrupts>>

\* Line 67: echo $$ > "$pidfile".
WritePid(p) ==
  /\ tpc[p] = "writepid"
  /\ pidfile' = p
  /\ Did(p, "write pidfile")
  /\ Goto(p, "rmlog")
  /\ UNCHANGED <<targs, trap, f_inc, todo, ran, tracked, seen,
                 logdir, interrupts>>

\* Line 69: rm -rf "$logdir".
WipeLogdir(p) ==
  /\ tpc[p] = "rmlog"
  /\ logdir' = NoLogdir
  /\ Did(p, "rm logdir")
  /\ Goto(p, "mkdir")
  /\ UNCHANGED <<targs, trap, f_inc, todo, ran, tracked, seen,
                 pidfile, interrupts>>

\* Lines 70-73: mkdir "$logdir" (fails if it exists), log redirection, cd.
MakeLogdir(p) ==
  /\ tpc[p] = "mkdir"
  /\ IF logdir.exists
     THEN Exit(p, 1, "errexit") /\ UNCHANGED <<logdir, effects>>
     ELSE /\ logdir' = [NoLogdir EXCEPT !.exists = TRUE]
          /\ Did(p, "mkdir logdir")
          /\ Goto(p, IF targs[p].skip_load THEN "seq" ELSE "configure")
  /\ UNCHANGED <<targs, trap, f_inc, todo, ran, tracked, seen,
                 pidfile, interrupts>>

\* Lines 76-83: cockroach sql ... SET CLUSTER SETTING.
Configure(p) ==
  /\ tpc[p] = "configure"
  /\ Did(p, "load")
  /\ \/ Goto(p, "import")
     \/ Exit(p, 1, "errexit")
  /\ UNCHANGED <<targs, trap, f_inc, todo, ran, tracked, seen,
                 pidfile, logdir, interrupts>>

\* Lines 85-87: cockroach workload fixtures import tpcc.
Import(p) ==
  /\ tpc[p] = "import"
  /\ Did(p, "load")
  /\ \/ Goto(p, "seq")
     \/ Exit(p, 1, "errexit")
  /\ UNCHANGED <<targs, trap, f_inc, todo, ran, tracked, seen,
                 pidfile, logdir, interrupts>>

\* Lines 90-95: a zero increment becomes the number of warehouses, then
\* `seq $f_active $f_inc $f_warehouses` gives the levels of the loop.
ComputeLevels(p) ==
  /\ tpc[p] = "seq"
  /\ LET inc == IF f_inc[p] = 0 THEN targs[p].warehouses ELSE f_inc[p]
         levels == seq(targs[p].active, inc, targs[p].warehouses)
     IN /\ f_inc' = [f_inc EXCEPT ![p] = inc]
        /\ todo' = [todo EXCEPT ![p] = levels]
        /\ Goto(p, IF levels = <<>> THEN "touch" ELSE "run")
  /\ UNCHANGED <<targs, trap, ran, tracked, seen, effects,
                 pidfile, logdir, interrupts>>

\* The report file of a level, (re)written by `> "$report"`.
WriteReport(dir, level, col3, col7) ==
  [dir EXCEPT !.reports =
     {r \in @ : r.level # level} \cup
     {[level |-> level, col3 |-> col3, col7 |-> col7]}]

\* Lines 97-103: cockroach workload run tpcc ... > "$report".  The
\* redirection fails if the results directory is gone.
RunLevel(p) ==
  /\ tpc[p] = "run"
  /\ LET active == Head(todo[p]) IN
     /\ ran' = [ran EXCEPT ![p] = Append(@, [level |-> active, verdict |-> "none"])]
     /\ Did(p, "level")
     /\ IF ~logdir.exists
        THEN Exit(p, 1, "errexit") /\ UNCHANGED logdir
        ELSE \/ \E col3 \in Col3Values, col7 \in Col7Values :
                  /\ logdir' = WriteReport(logdir, active, col3, col7)
                  /\ Goto(p, "check")
             \/ /\ logdir' = WriteReport(logdir, active, 0, 0)
                /\ Exit(p, 1, "errexit")
  /\ UNCHANGED <<targs, trap, f_inc, todo, tracked, seen, pidfile, interrupts>>

\* Variant: a failed rule does not leave the loop.
CheckRuleNoBreak(p) ==
  /\ tpc[p] = "check"
  /\ LET active == Head(todo[p])
         report == {r \in logdir.reports : r.level = active}
         pass == /\ logdir.exists
                 /\ \E r \in report : PassRule(r.col3, r.col7)
         verdict == IF pass THEN "pass" ELSE "fail"
     IN /\ ran' = [ran EXCEPT ![p][Len(ran[p])].verdict = verdict]
        /\ todo' = [todo EXCEPT ![p] = Tail(@)]
        /\ Goto(p, IF Tail(todo[p]) = <<>> THEN "touch" ELSE "run")
  /\ UNCHANGED <<targs, trap, f_inc, tracked, seen, effects,
                 pidfile, logdir, interrupts>>

\* Lines 105-109: the pass rule on the last line of the report; `break`
\* unless awk printed "pass" (also when the report cannot be read).
CheckRule(p) ==
  /\ tpc[p] = "check"
  /\ LET active == Head(todo[p])
         report == {r \in logdir.reports : r.level = active}
         pass == /\ logdir.exists
                 /\ \E r \in report : PassRule(r.col3, r.col7)
         verdict == IF pass THEN "pass" ELSE "fail"
     IN /\ ran' = [ran EXCEPT ![p][Len(ran[p])].verdict = verdict]
        /\ IF pass
           THEN /\ todo' = [todo EXCEPT ![p] = Tail(@)]
                /\ Goto(p, IF Tail(todo[p]) = <<>> THEN "touch" ELSE "run")
           ELSE /\ todo' = todo
                /\ Goto(p, "touch")
  /\ UNCHANGED <<targs, trap, f_inc, tracked, seen, effects,
                 pidfile, logdir, interrupts>>

\* Variant: the success marker is written only if some level passed.
TouchSuccessIfPassed(p) ==
  /\ tpc[p] = "touch"
  /\ IF ran[p] # <<>> /\ \A i \in 1..Len(ran[p]) : ran[p][i].verdict # "pass"
     THEN /\ UNCHANGED <<logdir, effects>>
          /\ Exit(p, 0, "finished")
     ELSE IF logdir.exists
     THEN /\ logdir' = [logdir EXCEPT !.success = TRUE]
          /\ Did(p, "touch success")
          /\ Exit(p, 0, "finished")
     ELSE /\ UNCHANGED <<logdir, effects>>
          /\ Exit(p, 1, "errexit")
  /\ UNCHANGED <<targs, trap, f_inc, todo, ran, tracked, seen,
                 pidfile, interrupts>>

\* Line 111: touch "$logdir/success", then the script ends.
TouchSuccess(p) ==
  /\ tpc[p] = "touch"
  /\ IF logdir.exists
     THEN /\ logdir' = [logdir EXCEPT !.success = TRUE]
          /\ Did(p, "touch success")
          /\ Exit(p, 0, "finished")
     ELSE /\ UNCHANGED <<logdir, effects>>
          /\ Exit(p, 1, "errexit")
  /\ UNCHANGED <<targs, trap, f_inc, todo, ran, tracked, seen,
                 pidfile, interrupts>>

\* Variant: the handler is registered for SIGINT only, not for EXIT.
ExitTrapKeepsPid(p) ==
  /\ tpc[p] = "exiting"
  /\ tpc' = [tpc EXCEPT ![p] = "done"]
  /\ UNCHANGED <<targs, trap, f_inc, todo, ran, tracked, trc, why, seen,
                 effects, pidfile, logdir, interrupts>>

\* The EXIT trap: rm -f $pidfile, then the process is gone.
ExitTrap(p) ==
  /\ tpc[p] = "exiting"
  /\ pidfile' = 0
  /\ tpc' = [tpc EXCEPT ![p] = "done"]
  /\ UNCHANGED <<targs, trap, f_inc, todo, ran, tracked, trc, why, seen,
                 effects, logdir, interrupts>>

\* Positions whose command is a child process run under `set -e`.
KillablePcs == {"rmlog", "mkdir", "configure", "import", "run", "touch"}

\* SIGINT.  Without the trap the shell dies.  With it the handler removes
\* the pid file and the script goes on, unless the signal also killed the
\* running child, whose non-zero status then ends the script (`set -e`).
Interrupt(p) ==
  /\ Alive(p)
  /\ interrupts < MaxInterrupts
  /\ interrupts' = interrupts + 1
  /\ IF ~trap[p]
     THEN /\ tpc' = [tpc EXCEPT ![p] = "done"]
          /\ trc' = [trc EXCEPT ![p] = 130]
          /\ why' = [why EXCEPT ![p] = "interrupt"]
          /\ UNCHANGED pidfile
     ELSE /\ pidfile' = 0
          /\ \/ UNCHANGED <<tpc, trc, why>>
             \/ /\ tpc[p] \in KillablePcs
                /\ Exit(p, 130, "interrupt")
  /\ UNCHANGED <<targs, trap, f_inc, todo, ran, tracked, seen, effects, logdir>>


(***************************************************************************)
(* generate: configuration, strings, templates                             *)
(***************************************************************************)
\* Strings are sequences of characters.  "a" stands for any letter or
\* digit; the other characters are the ones the code treats specially.
ShapeChars == {"a", ".", "_", "|", "-", "+"}

RECURSIVE StringsOfLen(_, _)
StringsOfLen(S, n) ==
  IF n = 0 THEN {<<>>}
  ELSE {<<c>> \o t : c \in S, t \in StringsOfLen(S, n - 1)}

\* Machine type names: non-empty strings up to MaxShapeLen characters.
Shapes == UNION {StringsOfLen(ShapeChars, n) : n \in 1..MaxShapeLen}

\* A Go map[string]string, which may be nil.
NilMap == [isnil |-> TRUE, kv |-> <<>>]

MapOf(f) == [isnil |-> FALSE, kv |-> f]

MapsOver(keys, vals) == {MapOf(f) : f \in UNION {[S -> vals] : S \in SUBSET keys}}

ArgNames == {"zone", "image"}

\* --lifetime, default "24h".
lifetime == <<"2", "4", "h">>

\* Values of roachprod arguments are text/template sources: plain text,
\* an action on a field of scriptData, an action on a field scriptData
\* does not have, and a source that does not parse.
PlainText(t) == [kind |-> "text", text |-> t]

TemplateValues ==
  {PlainText(<<>>), PlainText(<<"v", "\"">>),
   [kind |-> "field", text |-> <<"{{.Lifetime}}">>],
   [kind |-> "nofield", text |-> <<"{{.Nope}}">>],
   [kind |-> "malformed", text |-> <<"{{">>]}

\* template.New("arg").Parse(val): whether the source parses.
Parses(val) == val.kind # "malformed"

\* Execute(buf, templateArgs): error flag and the text written.
Execute(val, data) ==
  CASE val.kind = "text"    -> [err |-> FALSE, out |-> val.text]
    [] val.kind = "field"   -> [err |-> FALSE, out |-> data.Lifetime]
    [] val.kind = "nofield" -> [err |-> TRUE, out |-> <<>>]

\* Variant: on a conflict the base value is kept.
combineArgsBaseWins(machineArgs, baseArgs) ==
  IF machineArgs.isnil THEN baseArgs
  ELSE MapOf([arg \in DOMAIN machineArgs.kv \cup DOMAIN baseArgs.kv |->
                IF arg \in DOMAIN baseArgs.kv
                THEN baseArgs.kv[arg] ELSE machineArgs.kv[arg]])

\* combineArgs: machine specific args win, base args fill the gaps; a nil
\* machine map yields the base map itself.
combineArgs(machineArgs, baseArgs) ==
  IF machineArgs.isnil THEN baseArgs
  ELSE MapOf([arg \in DOMAIN machineArgs.kv \cup DOMAIN baseArgs.kv |->
                IF arg \in DOMAIN machineArgs.kv
                THEN machineArgs.kv[arg] ELSE baseArgs.kv[arg]])

\* strings.Replace(m, ".", "-", -1)
RECURSIVE FormatMachineType(_)
FormatMachineType(m) ==
  IF m = <<>> THEN <<>>
  ELSE <<IF Head(m) = "." THEN "-" ELSE Head(m)>> \o FormatMachineType(Tail(m))

\* regexp `[\.|\_]`: the class of the characters '.', '|' and '_'.
validClusterName == {".", "|", "_"}

RECURSIVE ReplaceAllString(_, _, _)
ReplaceAllString(class, src, repl) ==
  IF src = <<>> THEN <<>>
  ELSE <<IF Head(src) \in class THEN repl ELSE Head(src)>>
       \o ReplaceAllString(class, Tail(src), repl)

\* (1+time.Now().Year())%1000 and hashStrings(...), printed with %d: runs
\* of digits, each written here as one piece.
YearDigits == "27"

HashDigits == "305419896"

\* fmt.Sprintf("cldrprt%d-%s-%d", ...) followed by the replacement.
clusterName(machineType) ==
  ReplaceAllString(validClusterName,
                   <<"cldrprt", YearDigits, "-">> \o machineType \o <<"-", HashDigits>>,
                   "-")

\* path.Join(cloud.ScriptDir(), fmt.Sprintf("%s.sh", FormatMachineType(m)))
scriptName(machineType) ==
  <<"scripts", "/">> \o FormatMachineType(machineType) \o <<".sh">>

\* fmt %q: the value in double quotes, with '"' and '\' escaped.
RECURSIVE Escaped(_)
Escaped(val) ==
  IF val = <<>> THEN <<>>
  ELSE (IF Head(val) \in {"\"", "\\"} THEN <<"\\", Head(val)>> ELSE <<Head(val)>>)
       \o Escaped(Tail(val))

Quoted(val) == <<"\"">> \o Escaped(val) \o <<"\"">>

\* Variant: the value is printed even when it is empty.
WriteFlagAlwaysValue(b, arg, val) ==
  (IF Len(b) > 0 THEN b \o <<" ">> ELSE b)
  \o <<"--", arg>> \o <<"=">> \o Quoted(val)

\* One round of the loop that fills buf: separator, --arg, =%q if non-empty.
WriteFlag(b, arg, val) ==
  (IF Len(b) > 0 THEN b \o <<" ">> ELSE b)
  \o <<"--", arg>>
  \o (IF Len(val) > 0 THEN <<"=">> \o Quoted(val) ELSE <<>>)

VARIABLES
  loaded,        \* the cloud's configuration as loaded
  cloud,         \* the CloudDetails in memory (combineArgs writes into it)
  gpc,           \* position in generateCloudScripts
  gtodo,         \* machine types the range loop has not visited yet
  templateArgs,  \* scriptData of the current target
  combinedArgs,  \* combinedArgs of the current target
  evaledArgs,    \* evaledArgs of the current target
  etodo,         \* arguments the current range loop has not visited yet
  buf,           \* the bytes.Buffer collecting the flags
  files,         \* script files on disk: set of [path, data]
  written,       \* machine types whose script was written, in order
  gresult        \* outcome: running, nil returned, error returned, panic

gvars == <<loaded, cloud, gpc, gtodo, templateArgs, combinedArgs, evaledArgs,
           etodo, buf, files, written, gresult>>

Running == [kind |-> "running", arg |-> ""]

ReturnedNil == [kind |-> "nil", arg |-> ""]

NoTarget == [Cluster |-> <<>>, Lifetime |-> lifetime, MachineType |-> <<>>,
             EvaledArgs |-> <<>>, BenchArgs |-> NilMap]

\* Machine configuration with no arguments of its own.
BareMachine == [RoachprodArgs |-> NilMap, BenchArgs |-> NilMap]

\* A cloud whose first target carries every combination of arguments,
\* next to a second target that inherits everything.
ArgClouds ==
  {[RoachprodArgs |-> d, BenchArgs |-> bd,
    MachineTypes |-> (<<"a">> :> [RoachprodArgs |-> t, BenchArgs |-> bt])
                     @@ (<<"a", "a">> :> BareMachine)] :
     d \in MapsOver(ArgNames, {PlainText(<<"d">>)}) \cup {NilMap},
     t \in MapsOver(ArgNames, TemplateValues) \cup {NilMap},
     bd \in {NilMap, MapOf(("io" :> <<"d">>) @@ ("cpu" :> <<"d">>))},
     bt \in {NilMap, MapOf("io" :> <<"m">>)}}

\* Clouds of one or two machine types over all names, without arguments.
ShapeClouds ==
  {[RoachprodArgs |-> MapOf("zone" :> PlainText(<<"d">>)), BenchArgs |-> NilMap,
    MachineTypes |-> [m \in ms |-> BareMachine]] :
     ms \in {{m1, m2} : m1 \in Shapes, m2 \in Shapes}}

GenStart ==
  /\ loaded \in ArgClouds \cup ShapeClouds
  /\ cloud = loaded
  /\ gpc = "dirs"
  /\ gtodo = DOMAIN loaded.MachineTypes
  /\ templateArgs = NoTarget
  /\ combinedArgs = NilMap
  /\ evaledArgs = <<>>
  /\ etodo = {}
  /\ buf = <<>>
  /\ files = {}
  /\ written = <<>>
  /\ gresult = Running

\* generate is not running.
GenIdle ==
  /\ loaded = [RoachprodArgs |-> NilMap, BenchArgs |-> NilMap, MachineTypes |-> <<>>]
  /\ cloud = loaded
  /\ gpc = "returned"
  /\ gtodo = {}
  /\ templateArgs = NoTarget
  /\ combinedArgs = NilMap
  /\ evaledArgs = <<>>
  /\ etodo = {}
  /\ buf = <<>>
  /\ files = {}
  /\ written = <<>>
  /\ gresult = ReturnedNil

(***************************************************************************)
(* generate: generateCloudScripts                                          *)
(***************************************************************************)
\* `return err`, or a panic that ends the program.
Fail(kind, arg) ==
  /\ gpc' = "returned"
  /\ gresult' = [kind |-> kind, arg |-> arg]

\* makeAllDirs(...): either it works or its error is returned.
MakeAllDirs ==
  /\ gpc = "dirs"
  /\ \/ gpc' = "range" /\ UNCHANGED gresult
     \/ Fail("error", "makeAllDirs")
  /\ UNCHANGED <<loaded, cloud, gtodo, templateArgs, combinedArgs, evaledArgs,
                 etodo, buf, files, written>>

\* Head of `for machineType, machineConfig := range cloud.MachineTypes`
\* down to the call of evalArgs: cluster name, both combineArgs calls.  A
\* non-nil machine map is the map combineArgs fills, so the configuration
\* in memory changes with it.
RangeMachineTypes ==
  /\ gpc = "range"
  /\ IF gtodo = {}
     THEN /\ gpc' = "returned" /\ gresult' = ReturnedNil
          /\ UNCHANGED <<cloud, gtodo, templateArgs, combinedArgs, evaledArgs, etodo>>
     ELSE \E machineType \in gtodo :
            LET machineConfig == cloud.MachineTypes[machineType]
                benchArgs == combineArgs(machineConfig.BenchArgs, cloud.BenchArgs)
                combined == combineArgs(machineConfig.RoachprodArgs, cloud.RoachprodArgs)
            IN /\ gtodo' = gtodo \ {machineType}
               /\ templateArgs' = [Cluster |-> clusterName(machineType),
                                   Lifetime |-> lifetime,
                                   MachineType |-> machineType,
                                   EvaledArgs |-> <<>>,
                                   BenchArgs |-> benchArgs]
               /\ combinedArgs' = combined
               /\ cloud' = [cloud EXCEPT !.MachineTypes[machineType] =
                              [RoachprodArgs |-> IF machineConfig.RoachprodArgs.isnil
                                                 THEN NilMap ELSE combined,
                               BenchArgs |-> IF machineConfig.BenchArgs.isnil
                                             THEN NilMap ELSE benchArgs]]
               /\ evaledArgs' = <<>>
               /\ etodo' = DOMAIN combined.kv
               /\ gpc' = "eval"
               /\ UNCHANGED gresult
  /\ UNCHANGED <<loaded, buf, files, written>>

\* evalArgs: one round of `for arg, val := range inputArgs`; when the map
\* is exhausted it returns nil and the flag buffer is created.
evalArgs ==
  /\ gpc = "eval"
  /\ IF etodo = {}
     THEN /\ gpc' = "render"
          /\ buf' = <<>>
          /\ etodo' = DOMAIN evaledArgs
          /\ UNCHANGED <<evaledArgs, gresult>>
     ELSE \E arg \in etodo :
            LET val == combinedArgs.kv[arg] IN
            IF ~Parses(val)
            THEN \* template.Must panics
                 Fail("panic", "arg") /\ UNCHANGED <<evaledArgs, etodo, buf>>
            ELSE IF Execute(val, templateArgs).err
            THEN \* fmt.Errorf("error evaluating arg %s: %v", arg, err)
                 Fail("error", arg) /\ UNCHANGED <<evaledArgs, etodo, buf>>
            ELSE /\ evaledArgs' = (arg :> Execute(val, templateArgs).out) @@ evaledArgs
                 /\ etodo' = etodo \ {arg}
                 /\ UNCHANGED <<gpc, gresult, buf>>
  /\ UNCHANGED <<loaded, cloud, gtodo, templateArgs, combinedArgs, files, written>>

\* One round of `for arg, val := range evaledArgs`; when the map is
\* exhausted, templateArgs.EvaledArgs = buf.String().
RenderFlags ==
  /\ gpc = "render"
  /\ IF etodo = {}
     THEN /\ templateArgs' = [templateArgs EXCEPT !.EvaledArgs = buf]
          /\ gpc' = "write"
          /\ UNCHANGED <<buf, etodo>>
     ELSE \E arg \in etodo :
            /\ buf' = WriteFlag(buf, arg, evaledArgs[arg])
            /\ etodo' = etodo \ {arg}
            /\ UNCHANGED <<templateArgs, gpc>>
  /\ UNCHANGED <<loaded, cloud, gtodo, combinedArgs, evaledArgs, files, written,
                 gresult>>

\* os.OpenFile(scriptName, O_RDWR|O_CREATE|O_TRUNC) and
\* scriptTemplate.Execute(f, templateArgs).
WriteScript ==
  /\ gpc = "write"
  /\ LET path == scriptName(templateArgs.MachineType)
         others == {f \in files : f.path # path}
     IN \/ /\ files' = others \cup {[path |-> path, data |-> templateArgs]}
           /\ written' = Append(written, templateArgs.MachineType)
           /\ gpc' = "range"
           /\ UNCHANGED gresult
        \/ /\ Fail("error", "OpenFile")
           /\ UNCHANGED <<files, written>>
        \/ /\ files' = others \cup {[path |-> path, data |-> NoTarget]}
           /\ Fail("error", "Execute")
           /\ UNCHANGED written
  /\ UNCHANGED <<loaded, cloud, gtodo, templateArgs, combinedArgs, evaledArgs,
                 etodo, buf>>

\* The driver is not running while tpcc.sh is studied on its own.
DriverIdle ==
  /\ argv = <<>> /\ optind = 1
  /\ do_create = FALSE /\ do_upload = FALSE /\ do_setup = FALSE
  /\ do_destroy = FALSE /\ f_resume = FALSE
  /\ cockroach_binary = "" /\ benchmarks = <<>>
  /\ dphase = "exit" /\ dfn = "" /\ dstep = 1 /\ bench_i = 1
  /\ issued = <<>> /\ usage_msg = "" /\ drc = 0

\* No tpcc.sh invocation is running while the driver is studied on its own.
TpccIdle ==
  /\ targs = [p \in Procs |-> DefaultArgs]
  /\ tpc = [p \in Procs |-> "done"]
  /\ trap = [p \in Procs |-> FALSE]
  /\ f_inc = [p \in Procs |-> 1]
  /\ todo = [p \in Procs |-> <<>>]
  /\ ran = [p \in Procs |-> <<>>]
  /\ tracked = [p \in Procs |-> 0]
  /\ trc = [p \in Procs |-> 0]
  /\ why = [p \in Procs |-> ""]
  /\ seen = [p \in Procs |-> -1]
  /\ effects = [p \in Procs |-> {}]
  /\ pidfile = 0
  /\ logdir = NoLogdir
  /\ interrupts = 0

vars == <<dvars, tvars, gvars>>

DriverInit == DriverStart /\ TpccIdle /\ GenIdle

DriverNext ==
  \/ RunCommand /\ UNCHANGED <<tvars, gvars>>
  \/ GetOpts /\ UNCHANGED <<tvars, gvars>>
  \/ GateCreate /\ UNCHANGED <<tvars, gvars>>
  \/ GateUpload /\ UNCHANGED <<tvars, gvars>>
  \/ GateSetup /\ UNCHANGED <<tvars, gvars>>
  \/ StartLoop /\ UNCHANGED <<tvars, gvars>>
  \/ WaitLoop /\ UNCHANGED <<tvars, gvars>>
  \/ GateDestroy /\ UNCHANGED <<tvars, gvars>>
  \/ DriverExit /\ UNCHANGED <<tvars, gvars>>

DriverSpec == DriverInit /\ [][DriverNext]_vars

TpccNext ==
  \/ \E p \in Procs : ParseArgs(p) /\ UNCHANGED <<dvars, gvars>>
  \/ \E p \in Procs : WaitTestSuccess(p) /\ UNCHANGED <<dvars, gvars>>
  \/ \E p \in Procs : WaitReadPid(p) /\ UNCHANGED <<dvars, gvars>>
  \/ \E p \in Procs : WaitTail(p) /\ UNCHANGED <<dvars, gvars>>
  \/ \E p \in Procs : WaitTestAgain(p) /\ UNCHANGED <<dvars, gvars>>
  \/ \E p \in Procs : Guard(p) /\ UNCHANGED <<dvars, gvars>>
  \/ \E p \in Procs : GuardRefuse(p) /\ UNCHANGED <<dvars, gvars>>
  \/ \E p \in Procs : CheckPgurls(p) /\ UNCHANGED <<dvars, gvars>>
  \/ \E p \in Procs : InstallTrap(p) /\ UNCHANGED <<dvars, gvars>>
  \/ \E p \in Procs : WritePid(p) /\ UNCHANGED <<dvars, gvars>>
  \/ \E p \in Procs : WipeLogdir(p) /\ UNCHANGED <<dvars, gvars>>
  \/ \E p \in Procs : MakeLogdir(p) /\ UNCHANGED <<dvars, gvars>>
  \/ \E p \in Procs : Configure(p) /\ UNCHANGED <<dvars, gvars>>
  \/ \E p \in Procs : Import(p) /\ UNCHANGED <<dvars, gvars>>
  \/ \E p \in Procs : ComputeLevels(p) /\ UNCHANGED <<dvars, gvars>>
  \/ \E p \in Procs : RunLevel(p) /\ UNCHANGED <<dvars, gvars>>
  \/ \E p \in Procs : CheckRule(p) /\ UNCHANGED <<dvars, gvars>>
  \/ \E p \in Procs : TouchSuccess(p) /\ UNCHANGED <<dvars, gvars>>
  \/ \E p \in Procs : ExitTrap(p) /\ UNCHANGED <<dvars, gvars>>
  \/ \E p \in Procs : Interrupt(p) /\ UNCHANGED <<dvars, gvars>>

\* Two invocations over all flags.
TpccInit == DriverIdle /\ GenIdle /\ TpccStart(FlagArgs, PeerArgs)

TpccSpec == TpccInit /\ [][TpccNext]_vars

\* One invocation over all level parameters, next to a wait or an unforced
\* run that goes through the load stage.
EscalationInit ==
  DriverIdle /\ GenIdle /\ TpccStart(LevelArgs, LoadingPeerArgs)

EscalationSpec == EscalationInit /\ [][TpccNext]_vars

\* A run next to a wait or a second run, on a machine that may hold the
\* results directory of an earlier run.
RerunInit == DriverIdle /\ GenIdle /\ RerunStart(FlagArgs, PeerArgs)

RerunSpec == RerunInit /\ [][TpccNext]_vars

GenInit == DriverIdle /\ TpccIdle /\ GenStart

GenNext ==
  \/ MakeAllDirs /\ UNCHANGED <<dvars, tvars>>
  \/ RangeMachineTypes /\ UNCHANGED <<dvars, tvars>>
  \/ evalArgs /\ UNCHANGED <<dvars, tvars>>
  \/ RenderFlags /\ UNCHANGED <<dvars, tvars>>
  \/ WriteScript /\ UNCHANGED <<dvars, tvars>>

GenSpec == GenInit /\ [][GenNext]_vars

(***************************************************************************)
(* Driver script: what the command line asks for, read off argv alone      *)
(***************************************************************************)
HasOption(flag, args) ==
  \E i \in 1..Len(argv) : argv[i].flag = flag /\ argv[i].arg \in args

BootstrapRequested(v) == HasOption("b", {v, "all"})

DestroyRequested == HasOption("d", {""})

ResumeRequested == HasOption("r", {""})

RECURSIVE RequestedFrom(_)
RequestedFrom(i) ==
  IF i > Len(argv) THEN <<>>
  ELSE LET o == argv[i]
           here == IF o.flag # "w" THEN <<>>
                   ELSE IF o.arg = "all"
                        THEN <<"bench_cpu", "bench_io", "bench_net", "bench_tpcc">>
                        ELSE <<"bench_" \o o.arg>>
       IN  here \o RequestedFrom(i + 1)

RequestedBenchmarks == RequestedFrom(1)

PhaseRank(ph) ==
  CASE ph = "prelude" -> 0 [] ph = "getopts" -> 1 [] ph = "create" -> 2
    [] ph = "upload" -> 3 [] ph = "setup" -> 4 [] ph = "start" -> 5
    [] ph = "wait" -> 6 [] ph = "destroy" -> 7 [] ph = "exit" -> 8

Past(ph) == PhaseRank(dphase) > PhaseRank(ph)

FnIssued(fn) == \E i \in 1..Len(issued) : issued[i].fn = fn

CmdIssued(cmd) == \E i \in 1..Len(issued) : issued[i].cmd = cmd

IsFetchEntry(e) == e.fn \in FetchFns

FetchTrace == SelectSeq(issued, IsFetchEntry)

WaitCommands == {"roachprod run cpu.sh -w", "roachprod run fio.sh -w",
                 "roachprod run netperf.sh -w", "roachprod run tpcc.sh -w"}

GetCommands == {"roachprod get coremark-results", "roachprod get fio-results",
                "roachprod get netperf-results", "roachprod get tpcc-results"}

(***************************************************************************)
(* Driver script: properties                                               *)
(***************************************************************************)
\* C1: the commands of create_cluster, upload_scripts, setup_cluster and
\* destroy_cluster are issued only if the phase was requested with -b / -d,
\* and once the script is past the phase they have been issued exactly when
\* it was requested; with only `-b upload` nothing of create, setup or
\* destroy is ever issued.
PhaseGating ==
  /\ FnIssued("create_cluster")  => BootstrapRequested("create")
  /\ FnIssued("upload_scripts")  => BootstrapRequested("upload")
  /\ FnIssued("setup_cluster")   => BootstrapRequested("setup")
  /\ FnIssued("destroy_cluster") => DestroyRequested
  /\ Past("create")  => (CmdIssued("roachprod run tmux new") <=> BootstrapRequested("create"))
  /\ Past("upload")  => (CmdIssued("roachprod run chmod") <=> BootstrapRequested("upload"))
  /\ Past("setup")   => (CmdIssued("roachprod run setup.sh") <=> BootstrapRequested("setup"))
  /\ Past("destroy") => (CmdIssued("roachprod destroy") <=> DestroyRequested)
  /\ argv = <<[flag |-> "b", arg |-> "upload"]>> =>
       \A i \in 1..Len(issued) : issued[i].fn \in {"prelude", "upload_scripts"}

PhaseGatingWitness ==
  /\ argv = <<[flag |-> "b", arg |-> "upload"]>>
  /\ drc = 0
  /\ FnIssued("upload_scripts")
  /\ ~FnIssued("create_cluster")

\* C2: with -r on the command line no command of bench_cpu, bench_io,
\* bench_net or bench_tpcc is ever issued, and once the wait loop is over
\* the wait and the fetch of every requested benchmark have been executed.
ResumeSkipsStart ==
  ResumeRequested =>
    /\ \A i \in 1..Len(issued) : issued[i].fn \notin BenchFns
    /\ Past("wait") =>
         /\ Len(FetchTrace) = 2 * Len(RequestedBenchmarks)
         /\ \A k \in 1..Len(RequestedBenchmarks) :
              /\ FetchTrace[2 * k - 1].fn = FetchName(RequestedBenchmarks[k])
              /\ FetchTrace[2 * k - 1].cmd \in WaitCommands
              /\ FetchTrace[2 * k].fn = FetchName(RequestedBenchmarks[k])
              /\ FetchTrace[2 * k].cmd \in GetCommands

ResumeSkipsStartWitness ==
  /\ ResumeRequested
  /\ Len(RequestedBenchmarks) >= 2
  /\ drc = 0
  /\ Len(FetchTrace) = 2 * Len(RequestedBenchmarks)

\* C3: the waits happen one benchmark at a time in request order: the k-th
\* wait is for the k-th requested benchmark, it is followed by that
\* benchmark's fetch, and the next wait is issued only after both returned 0.
SequentialWaits ==
  /\ Len(FetchTrace) <= 2 * Len(RequestedBenchmarks)
  /\ \A i \in 1..Len(FetchTrace) :
       /\ FetchTrace[i].fn = FetchName(RequestedBenchmarks[(i + 1) \div 2])
       /\ FetchTrace[i].cmd \in (IF i % 2 = 1 THEN WaitCommands ELSE GetCommands)
       /\ i < Len(FetchTrace) => FetchTrace[i].rc = 0

SequentialWaitsWitness ==
  /\ Len(RequestedBenchmarks) >= 2
  /\ RequestedBenchmarks[1] # RequestedBenchmarks[2]
  /\ ~ResumeRequested
  /\ Len(FetchTrace) >= 3

\* C10: a command that returns non-zero is the last command the driver
\* issues: the script exits with a failure status and nothing follows.
AbortOnFailure ==
  \A i \in 1..Len(issued) :
    issued[i].rc # 0 => (i = Len(issued) /\ drc \notin {-1, 0})

\* An option whose value the case statement of its flag does not know.
UnknownValue(o) ==
  \/ o.flag = "b" /\ o.arg \notin {"all", "create", "upload", "setup"}
  \/ o.flag = "w" /\ o.arg \notin {"cpu", "io", "net", "tpcc", "all"}

UnknownAt == {i \in 1..Len(argv) : UnknownValue(argv[i])}

FirstUnknown == CHOOSE i \in UnknownAt : \A j \in UnknownAt : i <= j

InvalidMessage(o) == "Invalid -" \o o.flag \o " value '" \o o.arg \o "'"

\* C15: if some -b or -w option carries an unknown value, then whatever
\* valid options stand before or after it nothing but the log directory
\* prelude is ever issued (no roachprod command), the script never leaves
\* option parsing and never exits 0, and as soon as getopts has consumed the
\* first such option the script has exited 1 with a usage message naming
\* that option's flag and value.
InvalidValueReported ==
  UnknownAt # {} =>
    /\ \A k \in 1..Len(issued) : issued[k].fn = "prelude"
    /\ dphase \in {"prelude", "getopts"}
    /\ drc # 0
    /\ optind <= FirstUnknown + 1
    /\ optind <= FirstUnknown => usage_msg = ""
    /\ optind > FirstUnknown =>
         /\ drc = 1
         /\ usage_msg = InvalidMessage(argv[FirstUnknown])

InvalidValueReportedWitness ==
  /\ Len(argv) = 3
  /\ argv[1] = [flag |-> "b", arg |-> "create"]
  /\ argv[2] = [flag |-> "w", arg |-> "bogus"]
  /\ argv[3] = [flag |-> "d", arg |-> ""]
  /\ drc = 1
  /\ usage_msg = "Invalid -w value 'bogus'"
  /\ do_create /\ ~do_destroy

\* Rank of the phase a shell function belongs to.
FnRank(fn) ==
  CASE fn = "prelude" -> 0
    [] fn = "create_cluster" -> 2
    [] fn = "upload_scripts" -> 3
    [] fn = "setup_cluster" -> 4
    [] fn \in BenchFns -> 5
    [] fn \in FetchFns -> 6
    [] fn = "destroy_cluster" -> 7

StartCommands == {run_under_tmux(n)[1] : n \in {"cpu", "io", "net", "tpcc"}}

IsStartEntry(e) == e.fn \in BenchFns /\ e.cmd \in StartCommands

StartTrace == SelectSeq(issued, IsStartEntry)

\* C17: the commands are issued in the order create, upload, setup,
\* benchmark starts, waits and fetches, destroy: no command in the log is
\* of an earlier phase than the command before it; and when -r is absent, at
\* the time a wait or fetch command has been issued the benchmark windows
\* opened so far are exactly the requested benchmarks, in request order,
\* each opened with status 0 (so all starts precede the first wait).
PhaseOrder ==
  /\ \A k \in 1..(Len(issued) - 1) :
       FnRank(issued[k].fn) <= FnRank(issued[k + 1].fn)
  /\ ((\E k \in 1..Len(issued) : issued[k].fn \in FetchFns) /\ ~ResumeRequested) =>
       /\ Len(StartTrace) = Len(RequestedBenchmarks)
       /\ \A k \in 1..Len(StartTrace) :
            /\ StartTrace[k].fn = RequestedBenchmarks[k]
            /\ StartTrace[k].rc = 0

PhaseOrderWitness ==
  /\ ~ResumeRequested
  /\ FnIssued("create_cluster")
  /\ Len(RequestedBenchmarks) >= 2
  /\ Len(StartTrace) = Len(RequestedBenchmarks)
  /\ Len(FetchTrace) = 1

(***************************************************************************)
(* generate: properties                                                    *)
(***************************************************************************)
\* A target is being generated: its scriptData and combinedArgs are set.
InTarget == gpc \in {"eval", "render", "write"}

\* R is the merge of target map T onto default map D.
IsMergeOf(R, T, D) ==
  /\ DOMAIN R.kv = DOMAIN T.kv \cup DOMAIN D.kv
  /\ \A k \in DOMAIN T.kv : R.kv[k] = T.kv[k]
  /\ \A k \in DOMAIN D.kv \ DOMAIN T.kv : R.kv[k] = D.kv[k]

\* C11: for the target being generated, both maps combineArgs returned
\* hold the target's value at every key of the target map and the
\* default's value at every key only the default map has (a nil target
\* map included), measured against the configuration as loaded.
MergeInvariant ==
  InTarget =>
    LET m == templateArgs.MachineType IN
    /\ IsMergeOf(combinedArgs, loaded.MachineTypes[m].RoachprodArgs,
                 loaded.RoachprodArgs)
    /\ IsMergeOf(templateArgs.BenchArgs, loaded.MachineTypes[m].BenchArgs,
                 loaded.BenchArgs)

MergeInvariantWitness ==
  /\ gpc = "write"
  /\ LET T == loaded.MachineTypes[templateArgs.MachineType].RoachprodArgs
         D == loaded.RoachprodArgs
     IN /\ DOMAIN T.kv = {"zone"}
        /\ DOMAIN D.kv = {"zone", "image"}
        /\ T.kv["zone"] # D.kv["zone"]
        /\ combinedArgs.kv["zone"] = T.kv["zone"]
        /\ combinedArgs.kv["image"] = D.kv["image"]

\* The flag an evaluated argument is expected to render as.
ExpectedFlag(arg) ==
  IF evaledArgs[arg] = <<>>
  THEN <<"--", arg>>
  ELSE <<"--", arg, "=", "\"">> \o Escaped(evaledArgs[arg]) \o <<"\"">>

RECURSIVE JoinFlags(_)
JoinFlags(order) ==
  IF order = <<>> THEN <<>>
  ELSE IF Len(order) = 1 THEN ExpectedFlag(order[1])
  ELSE ExpectedFlag(order[1]) \o <<" ">> \o JoinFlags(Tail(order))

\* The ways of listing every key of evaledArgs exactly once.
Orders ==
  {o \in SeqsUpTo(ArgNames, Cardinality(ArgNames)) :
     /\ Len(o) = Cardinality(DOMAIN evaledArgs)
     /\ {o[i] : i \in 1..Len(o)} = DOMAIN evaledArgs}

\* C12: the deployment-argument string holds every argument of the
\* target exactly once, space separated, as the bare flag --name when its
\* evaluated value is empty and as --name="value" otherwise.
FlagsRendered ==
  gpc = "write" =>
    /\ DOMAIN evaledArgs = DOMAIN combinedArgs.kv
    /\ \E o \in Orders : templateArgs.EvaledArgs = JoinFlags(o)

FlagsRenderedWitness ==
  /\ gpc = "write"
  /\ DOMAIN evaledArgs = {"zone", "image"}
  /\ evaledArgs["zone"] = <<>>
  /\ evaledArgs["image"] # <<>>
  /\ templateArgs.EvaledArgs = <<"--", "zone", " ", "--", "image", "=", "\"">>
                                 \o Escaped(evaledArgs["image"]) \o <<"\"">>

\* Arguments of the current target whose template cannot be evaluated.
FailingArgs ==
  {arg \in DOMAIN combinedArgs.kv :
     \/ ~Parses(combinedArgs.kv[arg])
     \/ Execute(combinedArgs.kv[arg], templateArgs).err}

\* C13: when an argument of a target fails to evaluate, generation of the
\* target ends in a returned error naming such an argument, and no script
\* is written for the target.
EvalFailureNamesArg ==
  (FailingArgs # {} /\ gpc # "eval") =>
    /\ gpc = "returned"
    /\ gresult.kind = "error"
    /\ gresult.arg \in FailingArgs
    /\ \A i \in 1..Len(written) : written[i] # templateArgs.MachineType

\* C14: the cluster name of a target is made of letters, digits and
\* hyphens only.
ClusterNameIsClean ==
  \A i \in 1..Len(templateArgs.Cluster) :
    templateArgs.Cluster[i] \in {"a", "-", "cldrprt", YearDigits, HashDigits}

\* C16: the script of every target generated in this run is on disk: no
\* other target of the run was written to the same path.
ScriptsDoNotCollide ==
  \A i \in 1..Len(written) :
    \E f \in files : f.data.MachineType = written[i]

(***************************************************************************)
(* tpcc.sh: properties                                                     *)
(***************************************************************************)
\* The increment the loop uses, read off the command line.
StepOf(p) == IF targs[p].inc = 0 THEN targs[p].warehouses ELSE targs[p].inc

IsLastLevel(p, level) == level + StepOf(p) > targs[p].warehouses

AfterLoop == {"touch", "exiting", "done"}

\* C4: once the pass rule fails at a level no higher level is run, and
\* when it passes at a level that is not the last the next level (one
\* increment higher) is what the loop runs next.
EscalationStops ==
  \A p \in Procs :
    LET r == ran[p]
        n == Len(r)
    IN \A i \in 1..n :
         /\ i < n => /\ r[i].verdict = "pass"
                     /\ r[i + 1].level = r[i].level + StepOf(p)
         /\ r[i].verdict = "fail" => (i = n /\ tpc[p] \in AfterLoop)
         /\ (i = n /\ r[i].verdict = "pass" /\ ~IsLastLevel(p, r[i].level)) =>
              \/ tpc[p] = "run" /\ Head(todo[p]) = r[i].level + StepOf(p)
              \/ why[p] = "interrupt"

EscalationStopsWitness ==
  \E p \in Procs :
    /\ targs[p].warehouses = 3
    /\ Len(ran[p]) = 2
    /\ ran[p][1] = [level |-> 1, verdict |-> "pass"]
    /\ ran[p][2] = [level |-> 2, verdict |-> "fail"]
    /\ tpc[p] = "done"

\* C5 as stated: the success marker is written only if the loop ran out of
\* levels or some level passed the rule.
SuccessOnlyAfterPass ==
  \A p \in Procs :
    "touch success" \in effects[p] =>
      \/ ran[p] = <<>>
      \/ \E i \in 1..Len(ran[p]) : ran[p][i].verdict = "pass"

\* The loop of p is over: its last level failed the rule, or passed it and
\* was the last one.
LoopEnded(p) ==
  /\ ran[p] # <<>>
  /\ LET last == ran[p][Len(ran[p])]
     IN \/ last.verdict = "fail"
        \/ last.verdict = "pass" /\ IsLastLevel(p, last.level)

\* C5 amended: after the loop ends, by running out of levels or by a
\* failed rule (also at the very first level), the script goes on to write
\* the success marker; it exits with status 0 only after writing it.
SuccessAfterLoop ==
  \A p \in Procs :
    LoopEnded(p) =>
      /\ tpc[p] \in AfterLoop
      /\ (tpc[p] # "touch" /\ trc[p] = 0) => "touch success" \in effects[p]
      /\ (tpc[p] # "touch" /\ "touch success" \notin effects[p]) =>
           why[p] \in {"errexit", "interrupt"}

SuccessAfterLoopWitness ==
  \E p \in Procs :
    /\ Len(ran[p]) = 1
    /\ ran[p][1].verdict = "fail"
    /\ "touch success" \in effects[p]
    /\ logdir.success
    /\ tpc[p] = "done"

\* C6 as stated: whenever an invocation that is not in wait mode exits, the
\* pid file is absent right after.
MarkerAbsentAfterExit ==
  [][\A p \in Procs :
       (~targs[p].wait /\ tpc[p] # "done" /\ tpc'[p] = "done") => pidfile' = 0]_vars

\* C6 amended: whenever an invocation that has installed the exit trap
\* exits (normal end, failed command, interrupt), the pid file is absent
\* right after; the exits before the trap leave an existing pid file alone.
MarkerAbsentAfterTrappedExit ==
  [][\A p \in Procs :
       (~targs[p].wait /\ tpc[p] # "done" /\ tpc'[p] = "done") =>
         IF trap[p] THEN pidfile' = 0 ELSE pidfile' = pidfile]_vars

MarkerAbsentAfterTrappedExitWitness ==
  \E p \in Procs :
    /\ trap[p] /\ tpc[p] = "done"
    /\ why[p] = "interrupt"
    /\ pidfile = 0

\* C7: an invocation without -f that finds the pid file at its start-up
\* check writes no pid file, does not wipe or create the results
\* directory, runs neither the load stage nor a level, and exits.
GuardRefusesSecondInstance ==
  \A p \in Procs :
    (~targs[p].wait /\ ~targs[p].force /\ seen[p] > 0) =>
      /\ effects[p] = {}
      /\ ran[p] = <<>>
      /\ ~trap[p]
      /\ tpc[p] \in {"guard_cat", "done"}

GuardRefusesSecondInstanceWitness ==
  \E p \in Procs :
    /\ ~targs[p].force /\ seen[p] > 0 /\ seen[p] # p
    /\ tpc[p] = "done" /\ why[p] = "guard"
    /\ pidfile = seen[p]
    /\ logdir.exists

\* C8: a wait-mode invocation succeeds at once if the success marker
\* exists, otherwise it stays blocked while the process named in the pid
\* file is alive, and when it terminates it reports success exactly if the
\* success marker exists at that moment.
WaitReportsMarker ==
  [][\A p \in Procs :
       (targs[p].wait /\ why'[p] # "interrupt") =>
         /\ (tpc[p] = "w_test" /\ tpc'[p] # "w_test" /\ logdir.exists /\ logdir.success)
              => (tpc'[p] = "done" /\ trc'[p] = 0)
         /\ (tpc[p] = "w_tail" /\ tpc'[p] # "w_tail") => ~Alive(tracked[p])
         /\ (tpc[p] # "done" /\ tpc'[p] = "done")
              => (trc'[p] = 0 <=> (logdir.exists /\ logdir.success))]_vars

IsRun(p) == ~targs[p].wait /\ ~targs[p].bad /\ targs[p].pgurls

IsWait(p) == targs[p].wait /\ ~targs[p].bad

\* Positions before `echo $$ > "$pidfile"` has been executed.
BeforeMarkerPcs == {"getopts", "guard", "pgurls", "trap", "writepid"}

\* The wait succeeded on a success marker no run of this start has written.
StaleSuccess(w, r) == trc[w] = 0 /\ "touch success" \notin effects[r]

\* The wait fails at `cat $pidfile` while the run has not written it yet.
EarlyFailure(w, r) ==
  /\ tpc[w] = "w_cat" /\ tpc'[w] = "done" /\ trc'[w] = 1
  /\ tpc[r] \in BeforeMarkerPcs /\ "write pidfile" \notin effects[r]
  /\ interrupts = 0

\* C18: with a run and a wait started side by side, the wait exits 0 only
\* if that run has touched the success marker, and the wait never takes the
\* failure exit at the read of the pid file while the run is still on its
\* way to writing the pid file.
WaitTracksNewRun ==
  /\ [](\A w \in Procs : \A r \in Procs \ {w} :
         (IsWait(w) /\ IsRun(r)) => ~StaleSuccess(w, r))
  /\ [][\A w \in Procs : \A r \in Procs \ {w} :
         (IsWait(w) /\ IsRun(r)) => ~EarlyFailure(w, r)]_vars

\* Positions of the guarded section: the wipe of the results directory,
\* the load stage and the escalation loop.
GuardedPcs == {"rmlog", "mkdir", "configure", "import", "seq", "run", "check"}

InGuardedSection(p) == IsRun(p) /\ tpc[p] \in GuardedPcs

\* C19: the guard does not exclude a second instance: two instances started
\* without -f can be in the guarded section at the same time, and whenever
\* they are, each of them found no pid file when it executed the guard.
GuardIsAdvisory ==
  \A p \in Procs : \A q \in Procs \ {p} :
    (/\ InGuardedSection(p) /\ ~targs[p].force
     /\ InGuardedSection(q) /\ ~targs[q].force)
    => seen[p] = 0 /\ seen[q] = 0

GuardIsAdvisoryWitness ==
  /\ \A p \in Procs :
       /\ InGuardedSection(p) /\ ~targs[p].force
       /\ seen[p] = 0
       /\ "mkdir logdir" \in effects[p]
       /\ tpc[p] \in {"run", "check"}
  /\ interrupts = 0

\* Positions of the load stage and of the escalation loop.
LoadOrLoopPcs == {"configure", "import", "seq", "run", "check"}

\* C20: while some instance is in the load stage or in the escalation
\* loop, the pid file exists and holds the pid of a running instance.
MarkerHeldWhileRunning ==
  \A p \in Procs :
    (IsRun(p) /\ tpc[p] \in LoadOrLoopPcs) => (pidfile # 0 /\ Alive(pidfile))

====
